---- MODULE Spec2Model ----
(***************************************************************************)
(* State-machine model of USBAdapter (packages/usb/src/index.ts): the      *)
(* constructor with its process-wide "detach" listener, open() with its    *)
(* per-interface alt-setting callbacks, and close().  JavaScript runs one  *)
(* handler at a time, so every handler is one atomic action.  Everything   *)
(* the host USB library decides (a call throwing, a kernel driver being    *)
(* active, the moment a callback or a detach notification arrives) is a    *)
(* nondeterministic input of the action.                                   *)
(***************************************************************************)
EXTENDS Integers, Sequences, FiniteSets, TLC

\* Bounds: the number of open() and close() calls made over all adapters, and
\* the number of open() calls among them.
MaxCalls == 2
MaxOpens == 1

\* The adapter instances of the process and the devices known to the host.
Adapters == {"A", "B"}
Devices == {"D1", "D2", "D3", "D4", "D5"}

\* JavaScript values.  Numbers are written as strings so that every value
\* a field can hold is comparable with every other.
Null == "null"
Undefined == "undefined"
Numbers == {"0", "1", "2"}
Falsy(x) == x \in {Null, Undefined, "0"}

\* getDeviceList(): the enumeration order of the host.
DeviceOrder == <<"D1", "D2", "D3", "D4", "D5">>

\* Descriptor data of the devices: ids, interface class, and for every
\* interface the directions of its endpoints, in order.
VendorId(d) ==
  CASE d = "D1" -> "1" [] d = "D2" -> "1" [] d = "D3" -> "2"
    [] d = "D4" -> "2" [] OTHER -> "2"
ProductId(d) ==
  CASE d = "D1" -> "1" [] d = "D2" -> "2" [] d = "D3" -> "1"
    [] d = "D4" -> "2" [] OTHER -> "2"
IFACE_CLASS_HID == 3
IFACE_CLASS_PRINTER == 7
InterfaceClass(d) == IF d \in {"D1", "D3", "D4"} THEN IFACE_CLASS_PRINTER ELSE IFACE_CLASS_HID
Interfaces(d) ==
  CASE d = "D1" -> << <<"in", "out">>, <<"out", "in">> >>
    [] d = "D2" -> << <<"in">> >>
    [] d = "D3" -> << <<"out", "in">> >>
    [] d = "D4" -> << <<"in", "out">> >>
    [] OTHER -> << >>
NumInterfaces(d) == Len(Interfaces(d))

\* The sets of devices that may be attached when the process starts.
HostConfigs == {{"D1", "D2"}, {"D2", "D3"}, {"D3", "D4"}, {"D4", "D5"}, {"D5", "D1"}}

\* An endpoint object, and the value of an unset endpoint slot.
Ep(d, i, j) == [dev |-> d, iface |-> i, idx |-> j, direction |-> Interfaces(d)[i][j]]
NoEndpoint == [dev |-> Undefined, iface |-> 0, idx |-> 0, direction |-> Undefined]

Event(n, d) == [name |-> n, dev |-> d]
HostCall(op, d, i) == [op |-> op, dev |-> d, iface |-> i]
Op(op, a, k, i, x, y) == [op |-> op, a |-> a, k |-> k, i |-> i, x |-> x, y |-> y]

VARIABLES
  status,              \* per adapter: "absent" (never constructed), "none" (not yet constructed),
                       \* "live", "failed" (the constructor threw)
  device,              \* this.device
  endpoint,            \* this.endpoint
  deviceToPcEndpoint,  \* this.deviceToPcEndpoint
  listeners,           \* adapters whose handler is registered on usb "detach"
  opens,               \* per adapter: one record per open() call that scheduled callbacks
  attached,            \* devices currently attached to the host
  platform,            \* os.platform()
  calls,               \* per adapter: numbers of open(), close() and write() calls made on it so far
  detached,            \* per adapter: its detach handler has matched its device
  hostOpen,            \* per adapter: device.open() has succeeded and no device.close() since
  opened,              \* per adapter: an open callback reported success on a device open at the
                       \* host level, and no close/detach since
  closed,              \* per adapter: a close() has released the device and reported success
  lastOp,              \* the handler that ran last
  emitted,             \* per adapter: events emitted by the handler that ran last
  hostCalls,           \* per adapter: host-level calls made by the handler that ran last
  cbCalls,             \* per adapter: callback invocations made by the handler that ran last
  threw,               \* what the handler that ran last threw to its caller ("none" if nothing)
  transfers,           \* per adapter: bulk transfers started by write() and not yet completed
  effects              \* what the handler that ran last did, in order, if it was a write()

vars == <<status, device, endpoint, deviceToPcEndpoint, listeners, opens, attached,
          platform, calls, detached, hostOpen, opened, closed, lastOp, emitted,
          hostCalls, cbCalls, threw, transfers, effects>>

None == [a \in Adapters |-> <<>>]
NoCalls == [open |-> 0, close |-> 0, write |-> 0]
RECURSIVE TotalOpens(_)
TotalOpens(S) ==
  IF S = {} THEN 0
  ELSE LET x == CHOOSE y \in S : TRUE IN calls[x].open + TotalOpens(S \ {x})
RECURSIVE TotalCalls(_)
TotalCalls(S) ==
  IF S = {} THEN 0
  ELSE LET x == CHOOSE y \in S : TRUE
       IN calls[x].open + calls[x].close + calls[x].write + TotalCalls(S \ {x})
Only(a, s) == [b \in Adapters |-> IF b = a THEN s ELSE <<>>]

Init ==
  /\ status = [a \in Adapters |-> IF a = "A" THEN "none" ELSE "absent"]
  /\ device = [a \in Adapters |-> Null]
  /\ endpoint = [a \in Adapters |-> NoEndpoint]
  /\ deviceToPcEndpoint = [a \in Adapters |-> NoEndpoint]
  /\ listeners = {}
  /\ opens = [a \in Adapters |-> <<>>]
  /\ attached \in HostConfigs
  /\ platform \in {"linux", "win32"}
  /\ calls = [a \in Adapters |-> NoCalls]
  /\ detached = [a \in Adapters |-> FALSE]
  /\ hostOpen = [a \in Adapters |-> FALSE]
  /\ opened = [a \in Adapters |-> FALSE]
  /\ closed = [a \in Adapters |-> FALSE]
  /\ lastOp = Op("init", "A", 0, 0, Undefined, Undefined)
  /\ emitted = None
  /\ hostCalls = None
  /\ cbCalls = None
  /\ threw = "none"
  /\ transfers = None
  /\ effects = <<>>

----------------------------------------------------------------------------
\* Device selection (constructor).

\* The attached devices, in enumeration order.
RECURSIVE Enumerate(_, _)
Enumerate(att, n) ==
  IF n > Len(DeviceOrder) THEN <<>>
  ELSE (IF DeviceOrder[n] \in att THEN <<DeviceOrder[n]>> ELSE <<>>) \o Enumerate(att, n + 1)
getDeviceList(att) == Enumerate(att, 1)

\* findByIds(vid, pid): the first attached device with these ids, or undefined.
findByIds(att, vid, pid) ==
  LET m == SelectSeq(getDeviceList(att), LAMBDA d : VendorId(d) = vid /\ ProductId(d) = pid)
  IN IF Len(m) > 0 THEN m[1] ELSE Undefined

\* findPrinter(): the attached devices with an interface of class PRINTER.
findPrinter(att) ==
  SelectSeq(getDeviceList(att), LAMBDA d : InterfaceClass(d) = IFACE_CLASS_PRINTER)

\* The device the constructor resolves from its arguments.
ResolveDevice(att, vid, pid) ==
  IF ~Falsy(vid) /\ ~Falsy(pid) THEN findByIds(att, vid, pid)
  ELSE IF ~Falsy(vid) THEN vid
  ELSE LET devices == findPrinter(att)
       IN IF Len(devices) > 0 THEN devices[1] ELSE Null

\* new USBAdapter(vid, pid)
Construct(a, vid, pid) ==
  /\ status[a] = "none"
  /\ effects' = <<>> /\ UNCHANGED transfers
  /\ LET dev == ResolveDevice(attached, vid, pid)
     IN IF Falsy(dev)
        THEN /\ status' = [status EXCEPT ![a] = "failed"]
             /\ threw' = "DeviceNotFound"
             /\ UNCHANGED <<device, listeners>>
        ELSE /\ status' = [status EXCEPT ![a] = "live"]
             /\ threw' = "none"
             /\ device' = [device EXCEPT ![a] = dev]
             /\ listeners' = listeners \cup {a}
  /\ lastOp' = Op("construct", a, 0, 0, vid, pid)
  /\ emitted' = None /\ hostCalls' = None /\ cbCalls' = None
  /\ UNCHANGED <<endpoint, deviceToPcEndpoint, opens, attached, platform, calls,
                 detached, hostOpen, opened, closed>>

----------------------------------------------------------------------------
\* The "detach" handler of the constructor.

\* A handler that does not compare identities: any notification clears a held device.
DetachMatchesAny(dev, selfDevice) == selfDevice \in Devices

\* device == self.device
DetachMatches(dev, selfDevice) == dev = selfDevice

\* The host reports that device d was detached: every registered handler runs.
HostDetach(d) ==
  /\ d \in attached
  /\ effects' = <<>> /\ UNCHANGED transfers
  /\ attached' = attached \ {d}
  /\ LET hit == {a \in listeners : DetachMatches(d, device[a])}
     IN /\ emitted' = [a \in Adapters |->
                         IF a \in hit THEN <<Event("detach", d), Event("disconnect", d)>>
                         ELSE <<>>]
        /\ device' = [a \in Adapters |-> IF a \in hit THEN Null ELSE device[a]]
        /\ detached' = [a \in Adapters |-> detached[a] \/ a \in hit]
        /\ opened' = [a \in Adapters |-> opened[a] /\ a \notin hit]
  /\ lastOp' = Op("detach", "A", 0, 0, d, Undefined)
  /\ hostCalls' = None /\ cbCalls' = None /\ threw' = "none"
  /\ UNCHANGED <<status, endpoint, deviceToPcEndpoint, listeners, opens, platform,
                 calls, hostOpen, closed>>

----------------------------------------------------------------------------
\* open(callback)

\* The record of one open() call: the device whose interfaces it iterated,
\* the interfaces whose alt-setting callback has not fired yet, the closure's
\* counter, and what the call has done so far (callback invocations in order,
\* number of "connect" events, whether a callback of it ran after the device
\* reference had become null).
OpenRecord(d, isFresh) ==
  [dev |-> d, pending |-> 1..NumInterfaces(d), counter |-> 0, cbs |-> <<>>,
   connects |-> 0, fresh |-> isFresh, late |-> FALSE]

RECURSIVE SetAltSettings(_, _)
SetAltSettings(d, i) ==
  IF i > NumInterfaces(d) THEN <<>>
  ELSE <<HostCall("setAltSetting", d, i)>> \o SetAltSettings(d, i + 1)

\* ho: whether the host-level device.open() throws.
Open(a, ho) ==
  /\ status[a] = "live"
  /\ TotalCalls(Adapters) < MaxCalls
  /\ TotalOpens(Adapters) < MaxOpens
  /\ effects' = <<>> /\ UNCHANGED transfers
  /\ calls' = [calls EXCEPT ![a].open = @ + 1]
  /\ lastOp' = Op("open", a, 0, 0, ho, Undefined)
  /\ emitted' = None /\ cbCalls' = None
  /\ IF device[a] \notin Devices
     THEN \* this.device is null (or not a device object): this.device.open() is a TypeError
          /\ threw' = "TypeError"
          /\ hostCalls' = None
          /\ UNCHANGED <<opens, hostOpen>>
     ELSE IF ho = "throws"
     THEN /\ threw' = "OpenError"
          /\ hostCalls' = Only(a, <<HostCall("open", device[a], 0)>>)
          /\ UNCHANGED <<opens, hostOpen>>
     ELSE /\ threw' = "none"
          /\ hostCalls' = Only(a, <<HostCall("open", device[a], 0)>>
                                   \o SetAltSettings(device[a], 1))
          /\ opens' = [opens EXCEPT ![a] = Append(@, OpenRecord(device[a], calls[a] = NoCalls))]
          /\ hostOpen' = [hostOpen EXCEPT ![a] = TRUE]
  /\ UNCHANGED <<status, device, endpoint, deviceToPcEndpoint, listeners, attached,
                 platform, detached, opened, closed>>

----------------------------------------------------------------------------
\* The alt-setting callback of one interface (lines 88-124).

\* Lines 92-101: the kernel-driver query and detach.  kq: "inactive" or "active"
\* (isKernelDriverActive); kd: "ok" or "throws" (detachKernelDriver, whose
\* exception is caught and logged).
KernelDriverCalls(plat, d, i, kq, kd) ==
  IF plat = "win32" THEN <<>>
  ELSE <<HostCall("isKernelDriverActive", d, i)>>
       \o (IF kq = "active" THEN <<HostCall("detachKernelDriver", d, i)>> ELSE <<>>)

\* An inner try that lets the exception of detachKernelDriver() escape.
InnerTryRethrows(kd) == IF kd = "throws" THEN "KernelDetachError" ELSE "none"

\* Lines 94-99: the try around iface.detachKernelDriver(); its catch logs the
\* exception and ends normally.  Yields what escapes to the enclosing try.
InnerTry(kd) == "none"

\* A binding that forgets the direction test: the first endpoint of any
\* direction takes the write slot.
BindWriteAnyDirection(w, e) == IF w = NoEndpoint THEN e ELSE w

\* A read slot that takes every "in" endpoint it is shown.
BindReadLast(r, e) == IF e.direction = "in" THEN e ELSE r

\* Lines 104-108: one endpoint against the two slots.
BindWrite(w, e) == IF e.direction = "out" /\ w = NoEndpoint THEN e ELSE w
BindRead(r, e) == IF e.direction = "in" /\ r = NoEndpoint THEN e ELSE r

\* Lines 103-109: all endpoints of interface i, in order, from endpoint j on.
RECURSIVE Classify(_, _, _, _, _)
Classify(w, r, d, i, j) ==
  IF j > Len(Interfaces(d)[i]) THEN [w |-> w, r |-> r]
  ELSE Classify(BindWrite(w, Ep(d, i, j)), BindRead(r, Ep(d, i, j)), d, i, j + 1)

\* The comparison made with the counter's value before the increment
\* (counter++ instead of ++counter).
AllFinishedPostIncrement(counter, n) == counter - 1 = n

\* Line 114: ++counter === self.device.interfaces.length
AllFinished(counter, n) == counter = n

\* Lines 110-116 after a successful claim: w is self.endpoint after the
\* classification, c the closure's counter, sd self.device.  Yields the new
\* counter, the events emitted and the callback invocations.
Completion(w, c, sd) ==
  IF w # NoEndpoint
  THEN [counter |-> c, emit |-> <<Event("connect", sd)>>, cb |-> <<"null">>]
  ELSE IF sd \notin Devices
  THEN \* self.device is null: reading .interfaces throws, caught at line 118
       [counter |-> c + 1, emit |-> <<>>, cb |-> <<"TypeError">>]
  ELSE IF AllFinished(c + 1, NumInterfaces(sd))
  THEN [counter |-> c + 1, emit |-> <<>>, cb |-> <<"EndpointNotFound">>]
  ELSE [counter |-> c + 1, emit |-> <<>>, cb |-> <<>>]

\* The callback of interface i of the k-th open() of adapter a.
\* cl: whether iface.claim() throws.
IfaceCallback(a, k, i, kq, kd, cl) ==
  /\ k \in 1..Len(opens[a])
  /\ i \in opens[a][k].pending
  /\ effects' = <<>> /\ UNCHANGED transfers
  /\ (platform = "win32" \/ kq = "inactive") => kd = "ok"   \* no detach attempted: kd is not an input
  /\ platform = "win32" => kq = "inactive"                  \* no query made: kq is not an input
  /\ LET o == opens[a][k]
         d == o.dev
         kcalls == KernelDriverCalls(platform, d, i, kq, kd)
         kerr == InnerTry(kd)
         claimed == kerr = "none" /\ cl = "ok"
         slots == IF claimed
                  THEN Classify(endpoint[a], deviceToPcEndpoint[a], d, i, 1)
                  ELSE [w |-> endpoint[a], r |-> deviceToPcEndpoint[a]]
         res == IF kerr # "none"   \* escapes to the catch at line 118
                THEN [counter |-> o.counter, emit |-> <<>>, cb |-> <<kerr>>]
                ELSE IF cl = "throws"
                THEN [counter |-> o.counter, emit |-> <<>>, cb |-> <<"ClaimError">>]
                ELSE Completion(slots.w, o.counter, device[a])
     IN /\ hostCalls' = Only(a, kcalls \o (IF kerr = "none"
                                            THEN <<HostCall("claim", d, i)>> ELSE <<>>))
        /\ endpoint' = [endpoint EXCEPT ![a] = slots.w]
        /\ deviceToPcEndpoint' = [deviceToPcEndpoint EXCEPT ![a] = slots.r]
        /\ emitted' = Only(a, res.emit)
        /\ cbCalls' = Only(a, res.cb)
        /\ opened' = [opened EXCEPT ![a] = @ \/ (res.cb = <<"null">> /\ hostOpen[a])]
        /\ opens' = [opens EXCEPT ![a][k] =
                       [o EXCEPT !.pending = @ \ {i},
                                 !.counter = res.counter,
                                 !.cbs = @ \o res.cb,
                                 !.connects = @ + Len(res.emit),
                                 !.late = @ \/ device[a] \notin Devices]]
  /\ lastOp' = Op("ifaceCallback", a, k, i, kd, cl)
  /\ threw' = "none"
  /\ UNCHANGED <<status, device, listeners, attached, platform, calls, detached,
                 hostOpen, closed>>

----------------------------------------------------------------------------
\* close(callback)

\* A close() that drops the detach listeners before it knows the release worked.
ListenersAlwaysRemoved(ls, hc) == {}

\* Lines 145-146: usb.removeAllListeners("detach") runs only after
\* this.device.close() has returned; it removes every listener of the host's
\* "detach" stream.
ListenersAfterClose(ls, hc) == IF hc = "throws" THEN ls ELSE {}

\* hc: whether the host-level device.close() throws.
Close(a, hc) ==
  /\ status[a] = "live"
  /\ TotalCalls(Adapters) < MaxCalls
  /\ effects' = <<>> /\ UNCHANGED transfers
  /\ calls' = [calls EXCEPT ![a].close = @ + 1]
  /\ lastOp' = Op("close", a, 0, 0, hc, Undefined)
  /\ threw' = "none"
  /\ LET first == IF Falsy(device[a]) THEN <<"null">> ELSE <<>>   \* line 143, no return
     IN IF device[a] \notin Devices
        THEN \* this.device.close() is a TypeError, caught at line 150
             /\ cbCalls' = Only(a, first \o <<"TypeError">>)
             /\ hostCalls' = None /\ emitted' = None
             /\ UNCHANGED <<listeners, hostOpen, opened, closed>>
        ELSE IF hc = "throws"
        THEN /\ cbCalls' = Only(a, first \o <<"CloseError">>)
             /\ hostCalls' = Only(a, <<HostCall("close", device[a], 0)>>)
             /\ emitted' = None
             /\ listeners' = ListenersAfterClose(listeners, hc)
             /\ UNCHANGED <<hostOpen, opened, closed>>
        ELSE /\ cbCalls' = Only(a, first \o <<"null">>)
             /\ hostCalls' = Only(a, <<HostCall("close", device[a], 0)>>)
             /\ emitted' = Only(a, <<Event("close", device[a])>>)
             /\ listeners' = ListenersAfterClose(listeners, hc)
             /\ hostOpen' = [hostOpen EXCEPT ![a] = FALSE]
             /\ opened' = [opened EXCEPT ![a] = FALSE]
             /\ closed' = [closed EXCEPT ![a] = TRUE]
  /\ UNCHANGED <<status, device, endpoint, deviceToPcEndpoint, opens, attached,
                 platform, detached>>

----------------------------------------------------------------------------
\* write(data, callback)

\* The payloads handed to write().
Buffers == {"buf1", "buf2"}
Effect(kind, ep, data) == [kind |-> kind, ep |-> ep, data |-> data]

\* A write() that starts the transfer before it emits the event.
WriteEffectsTransferFirst(ep, data) ==
  <<Effect("transfer", ep, data), Effect("emit:data", NoEndpoint, data)>>

\* Lines 137-138: this.emit("data", data), then this.endpoint.transfer(data, callback).
WriteEffects(ep, data) ==
  <<Effect("emit:data", NoEndpoint, data), Effect("transfer", ep, data)>>

\* ts: whether the host library accepts the transfer or throws on submission.
Write(a, data, ts) ==
  /\ status[a] = "live"
  /\ TotalCalls(Adapters) < MaxCalls
  /\ calls' = [calls EXCEPT ![a].write = @ + 1]
  /\ lastOp' = Op("write", a, 0, 0, data, ts)
  /\ emitted' = Only(a, <<Event("data", data)>>)
  /\ cbCalls' = None
  /\ IF endpoint[a] = NoEndpoint
     THEN \* this.endpoint is undefined: line 138 is a TypeError, after the emit
          /\ ts = "ok"
          /\ effects' = <<Effect("emit:data", NoEndpoint, data)>>
          /\ hostCalls' = None
          /\ threw' = "TypeError"
          /\ UNCHANGED transfers
     ELSE /\ effects' = WriteEffects(endpoint[a], data)
          /\ hostCalls' = Only(a, <<HostCall("transfer", endpoint[a].dev, endpoint[a].iface)>>)
          /\ IF ts = "throws"
             THEN threw' = "TransferError" /\ UNCHANGED transfers
             ELSE /\ threw' = "none"
                  /\ transfers' = [transfers EXCEPT
                                     ![a] = Append(@, [ep |-> endpoint[a], data |-> data])]
  /\ UNCHANGED <<status, device, endpoint, deviceToPcEndpoint, listeners, opens, attached,
                 platform, detached, hostOpen, opened, closed>>

\* Without(s, n): the sequence s without its n-th element.
Without(s, n) == [j \in 1..(Len(s) - 1) |-> IF j < n THEN s[j] ELSE s[j + 1]]

\* The host library completes the n-th pending transfer of adapter a and
\* invokes the callback that write() handed to it (line 138).
TransferDone(a, n, outcome) ==
  /\ n \in 1..Len(transfers[a])
  /\ transfers' = [transfers EXCEPT ![a] = Without(@, n)]
  /\ cbCalls' = Only(a, <<IF outcome = "ok" THEN "null" ELSE "TransferError">>)
  /\ lastOp' = Op("transferDone", a, 0, n, transfers[a][n].data, outcome)
  /\ emitted' = None /\ hostCalls' = None /\ threw' = "none" /\ effects' = <<>>
  /\ UNCHANGED <<status, device, endpoint, deviceToPcEndpoint, listeners, opens, attached,
                 platform, calls, detached, hostOpen, opened, closed>>

----------------------------------------------------------------------------
\* A device handle passed to the constructor comes from the host's enumeration.
ConstructorArgs == attached \cup Numbers \cup {Undefined}
Outcomes == {"ok", "throws"}
InterfaceIndexes == UNION {1..NumInterfaces(d) : d \in Devices}
KernelQueries == {"inactive", "active"}

Next ==
  \/ \E a \in Adapters, vid \in ConstructorArgs, pid \in Numbers \cup {Undefined} :
       Construct(a, vid, pid)
  \/ \E d \in Devices : HostDetach(d)
  \/ \E a \in Adapters, ho \in Outcomes : Open(a, ho)
  \/ \E a \in Adapters, k \in 1..MaxOpens, i \in InterfaceIndexes, kq \in KernelQueries,
        kd \in Outcomes, cl \in Outcomes : IfaceCallback(a, k, i, kq, kd, cl)
  \/ \E a \in Adapters, hc \in Outcomes : Close(a, hc)

Spec == Init /\ [][Next]_vars

\* Two adapters constructed in the same process: both subscribe to the one
\* "detach" stream of the usb module (line 43).
InitTwo ==
  /\ status = [a \in Adapters |-> "none"]
  /\ device = [a \in Adapters |-> Null]
  /\ endpoint = [a \in Adapters |-> NoEndpoint]
  /\ deviceToPcEndpoint = [a \in Adapters |-> NoEndpoint]
  /\ listeners = {}
  /\ opens = [a \in Adapters |-> <<>>]
  /\ attached \in HostConfigs
  /\ platform \in {"linux", "win32"}
  /\ calls = [a \in Adapters |-> NoCalls]
  /\ detached = [a \in Adapters |-> FALSE]
  /\ hostOpen = [a \in Adapters |-> FALSE]
  /\ opened = [a \in Adapters |-> FALSE]
  /\ closed = [a \in Adapters |-> FALSE]
  /\ lastOp = Op("init", "A", 0, 0, Undefined, Undefined)
  /\ emitted = None
  /\ hostCalls = None
  /\ cbCalls = None
  /\ threw = "none"
  /\ transfers = None
  /\ effects = <<>>

SpecTwo == InitTwo /\ [][Next]_vars

\* The adapter with its write path: write() calls and the completions of the
\* transfers they start.
NextIO ==
  \/ Next
  \/ \E a \in Adapters, data \in Buffers, ts \in Outcomes : Write(a, data, ts)
  \/ \E a \in Adapters, n \in 1..MaxCalls, outcome \in Outcomes : TransferDone(a, n, outcome)

SpecIO == Init /\ [][NextIO]_vars

----------------------------------------------------------------------------
\* Properties.

Live == {a \in Adapters : status[a] = "live"}
OpenCalls(a) == 1..Len(opens[a])
HasOut(d, i) == \E j \in 1..Len(Interfaces(d)[i]) : Interfaces(d)[i][j] = "out"

\* C1: during one open() the "connect" event is emitted at most once,
\* whatever the order in which the interfaces' callbacks complete.
C1_ConnectAtMostOnce ==
  \A a \in Adapters : \A k \in OpenCalls(a) : opens[a][k].connects <= 1

\* C2: within one open(), once an interface has bound the write endpoint (the
\* open callback has reported success), a claim failure of another interface
\* is swallowed: the open callback is not invoked with the claim error.
C2_ClaimErrorSwallowedOnceBound ==
  \A a \in Adapters : \A k \in OpenCalls(a) :
    LET cbs == opens[a][k].cbs
    IN \A j \in 1..Len(cbs) :
         cbs[j] = "ClaimError" => \A h \in 1..(j - 1) : cbs[h] # "null"

\* C3: a detach notification for the device an Open adapter owns makes the
\* adapter emit "detach" then "disconnect", once each, both carrying the
\* device, and leaves its device reference null.
C3_OwnedDetachWhileOpen ==
  [][\A d \in Devices : \A a \in Adapters :
       (d \in attached /\ d \notin attached' /\ device[a] = d /\ opened[a])
         => /\ emitted'[a] = <<Event("detach", d), Event("disconnect", d)>>
            /\ device'[a] = Null]_vars

\* C4: close() with a null device reference is a no-op: no host-level call,
\* no event, and the callback invoked once, with no error.
C4_CloseOnNullIsNoOp ==
  \A a \in Adapters :
    (lastOp.op = "close" /\ lastOp.a = a /\ device[a] = Null)
      => /\ hostCalls[a] = <<>>
         /\ emitted[a] = <<>>
         /\ cbCalls[a] = <<"null">>

\* C5: a close() that directly follows a close() which released the device
\* finds the device reference null, reports success and makes no host-level
\* call.
C5_SecondCloseReleasesNothing ==
  [][\A a \in Adapters :
       ( /\ lastOp.op = "close" /\ lastOp.a = a
         /\ hostCalls[a] = <<HostCall("close", device[a], 0)>>
         /\ cbCalls[a] = <<"null">>
         /\ lastOp'.op = "close" /\ lastOp'.a = a /\ calls'[a].close = calls[a].close + 1 )
         => /\ device[a] = Null
            /\ hostCalls'[a] = <<>>
            /\ cbCalls'[a] = <<"null">>]_vars

\* C6: a detach notification for a device other than the one an adapter owns
\* changes nothing of that adapter: no event, same device reference, same
\* endpoint slots, same open() records.
C6_OtherDetachNoEffect ==
  [][\A d \in Devices : \A a \in Live :
       (d \in attached /\ d \notin attached' /\ device[a] # d)
         => /\ emitted'[a] = <<>>
            /\ device'[a] = device[a]
            /\ endpoint'[a] = endpoint[a]
            /\ deviceToPcEndpoint'[a] = deviceToPcEndpoint[a]
            /\ opens'[a] = opens[a]
            /\ opened'[a] = opened[a]
            /\ detached'[a] = detached[a]]_vars

\* C6, witness: another device than the one held by an adapter that is Open
\* and still listening has just been reported detached.
C6_Witness ==
  \E a \in Live :
    /\ lastOp.op = "detach"
    /\ device[a] \in Devices /\ device[a] # lastOp.x
    /\ a \in listeners /\ opened[a]

\* C7: after the owned device was detached or close() released it, every
\* open() fails: it reports an error and does not open the device again.
C7_NoOpenAfterDetachOrClose ==
  \A a \in Adapters :
    (lastOp.op = "open" /\ lastOp.a = a /\ (detached[a] \/ closed[a]))
      => threw # "none" /\ ~hostOpen[a]

\* C8: open() never throws to its caller.
C8_OpenNeverThrows ==
  lastOp.op = "open" => threw = "none"

\* C9: once an adapter has observed the detach of its device, no handler of
\* it makes a host-level call.
C9_NoHostCallAfterDetach ==
  \A a \in Adapters : detached[a] => hostCalls[a] = <<>>

\* C10: the first open() of a fresh adapter on a device whose only interface
\* has no "out" endpoint never emits "connect" nor reports success, and when
\* the interface's callback has run with the claim succeeding and the device
\* still held, the open callback has been invoked exactly once, with
\* EndpointNotFound.
C10_NoOutEndpoint ==
  \A a \in Adapters : \A k \in OpenCalls(a) :
    LET o == opens[a][k]
    IN (o.fresh /\ NumInterfaces(o.dev) = 1 /\ ~HasOut(o.dev, 1))
         => /\ o.connects = 0
            /\ \A j \in 1..Len(o.cbs) : o.cbs[j] # "null"
            /\ (o.pending = {} /\ ~o.late /\ o.cbs # <<"ClaimError">>)
                 => o.cbs = <<"EndpointNotFound">>

\* C10, witness: such an open() has completed with EndpointNotFound.
C10_Witness ==
  \E a \in Adapters : \E k \in OpenCalls(a) :
    LET o == opens[a][k]
    IN /\ o.fresh /\ NumInterfaces(o.dev) = 1 /\ ~HasOut(o.dev, 1)
       /\ o.pending = {} /\ o.cbs = <<"EndpointNotFound">> /\ o.connects = 0

\* The devices with exactly one interface, holding one "out" and one "in" endpoint.
OneOutOneIn(d) ==
  /\ NumInterfaces(d) = 1
  /\ Len(Interfaces(d)[1]) = 2
  /\ {Interfaces(d)[1][j] : j \in 1..2} = {"out", "in"}
IndexOf(d, dir) == CHOOSE j \in 1..Len(Interfaces(d)[1]) : Interfaces(d)[1][j] = dir

\* C11: the first open() of a fresh adapter on a device with exactly one
\* interface holding one "out" and one "in" endpoint, in either order: once the
\* interface's callback has run with the claim succeeding, the out endpoint is
\* the write endpoint, the in endpoint the read endpoint, exactly one "connect"
\* was emitted, the open callback was invoked exactly once, with success, and
\* the adapter is Open.
C11_SingleInterfaceOpens ==
  \A a \in Adapters : \A k \in OpenCalls(a) :
    LET o == opens[a][k]
    IN (o.fresh /\ OneOutOneIn(o.dev))
         => /\ o.connects <= 1 /\ Len(o.cbs) <= 1
            /\ o.pending # {} => (o.connects = 0 /\ o.cbs = <<>>)
            /\ (o.pending = {} /\ o.cbs # <<"ClaimError">>)
                 => /\ o.cbs = <<"null">>
                    /\ o.connects = 1
                    /\ endpoint[a] = Ep(o.dev, 1, IndexOf(o.dev, "out"))
                    /\ deviceToPcEndpoint[a] = Ep(o.dev, 1, IndexOf(o.dev, "in"))
            /\ ( /\ lastOp.op = "ifaceCallback" /\ lastOp.a = a /\ lastOp.k = k
                 /\ lastOp.y = "ok" /\ hostOpen[a] /\ ~detached[a] )
                 => opened[a]

\* C11, witness: such an open() has completed on the device whose interface
\* lists its "in" endpoint first, and the adapter is Open.
C11_Witness ==
  \E a \in Adapters : \E k \in OpenCalls(a) :
    LET o == opens[a][k]
    IN /\ o.fresh /\ OneOutOneIn(o.dev) /\ IndexOf(o.dev, "out") = 2
       /\ o.pending = {} /\ o.cbs = <<"null">> /\ o.connects = 1
       /\ opened[a] /\ endpoint[a].direction = "out"
       /\ deviceToPcEndpoint[a].direction = "in"

\* C12: constructing with a pair of numeric ids that matches no attached
\* device throws DeviceNotFound: no adapter instance, no device selected, no
\* detach listener registered.
C12_NoMatchNoAdapter ==
  \A a \in Adapters :
    ( /\ lastOp.op = "construct" /\ lastOp.a = a
      /\ lastOp.x \in Numbers /\ lastOp.y \in Numbers
      /\ findByIds(attached, lastOp.x, lastOp.y) = Undefined )
      => /\ threw = "DeviceNotFound"
         /\ status[a] = "failed"
         /\ device[a] = Null
         /\ a \notin listeners

\* C13: a close() on an adapter that holds a device, whose host-level release
\* throws: the close callback is invoked once, with that error; the device
\* reference, the detach listener and the rest of the adapter's state are
\* unchanged; no "close" event is emitted.
C13_CloseReleaseThrows ==
  [][\A a \in Adapters :
       ( /\ lastOp'.op = "close" /\ lastOp'.a = a
         /\ calls'[a].close = calls[a].close + 1
         /\ lastOp'.x = "throws" /\ device[a] \in Devices )
         => /\ hostCalls'[a] = <<HostCall("close", device[a], 0)>>
            /\ cbCalls'[a] = <<"CloseError">>
            /\ emitted'[a] = <<>>
            /\ threw' = "none"
            /\ device'[a] = device[a]
            /\ listeners' = listeners
            /\ endpoint'[a] = endpoint[a]
            /\ deviceToPcEndpoint'[a] = deviceToPcEndpoint[a]
            /\ opens'[a] = opens[a]
            /\ opened'[a] = opened[a] /\ hostOpen'[a] = hostOpen[a]
            /\ closed'[a] = closed[a]]_vars

\* C13, witness: an Open adapter whose close() has just failed at the host:
\* still Open, still listening, the callback holding the error.
C13_Witness ==
  \E a \in Adapters :
    /\ lastOp.op = "close" /\ lastOp.a = a /\ lastOp.x = "throws"
    /\ device[a] \in Devices /\ opened[a] /\ a \in listeners
    /\ cbCalls[a] = <<"CloseError">> /\ emitted[a] = <<>>

\* C14: with two adapters alive, a close() on one of them removes only that
\* adapter's detach subscription: an adapter that was never closed itself
\* still reacts to the detach of its own device by emitting "detach" and
\* "disconnect" and clearing its device reference.
C14_CloseRemovesOnlyOwnListener ==
  [][\A d \in Devices : \A b \in Live :
       (d \in attached /\ d \notin attached' /\ device[b] = d /\ ~closed[b])
         => /\ emitted'[b] = <<Event("detach", d), Event("disconnect", d)>>
            /\ device'[b] = Null]_vars

\* C15: write(buf) on an Open adapter emits "data" carrying buf, then starts
\* one bulk transfer of buf on the bound write endpoint, which is an OUT
\* endpoint; the write callback is not invoked by write() itself, and the
\* successful completion of the transfer invokes it once, with no error.
C15_WriteEmitsThenTransfers ==
  [][\A a \in Adapters :
       /\ ( /\ lastOp'.op = "write" /\ lastOp'.a = a
            /\ calls'[a].write = calls[a].write + 1 /\ opened[a] )
            => /\ endpoint[a].direction = "out"
               /\ effects' = <<Effect("emit:data", NoEndpoint, lastOp'.x),
                               Effect("transfer", endpoint[a], lastOp'.x)>>
               /\ emitted'[a] = <<Event("data", lastOp'.x)>>
               /\ cbCalls'[a] = <<>>
               /\ lastOp'.y = "ok"
                    => transfers'[a] = Append(transfers[a],
                                              [ep |-> endpoint[a], data |-> lastOp'.x])
       /\ ( /\ lastOp'.op = "transferDone" /\ lastOp'.a = a
            /\ Len(transfers'[a]) = Len(transfers[a]) - 1 /\ lastOp'.y = "ok" )
            => /\ cbCalls'[a] = <<"null">>
               /\ emitted'[a] = <<>>]_vars

\* C15, witness: the transfer started by a write() on an Open adapter has
\* just succeeded and the write callback has been invoked with no error.
C15_Witness ==
  \E a \in Adapters :
    /\ lastOp.op = "transferDone" /\ lastOp.a = a /\ lastOp.y = "ok"
    /\ opened[a] /\ calls[a].write = 1 /\ transfers[a] = <<>>
    /\ cbCalls[a] = <<"null">>

\* C16: once every interface of an open() has finished its processing (a
\* device without interfaces and interfaces whose claim failed included) and
\* no write endpoint was bound, the open callback has been invoked with the
\* EndpointNotFound error.
C16_AllFinishedNoEndpoint ==
  \A a \in Adapters : \A k \in OpenCalls(a) :
    LET o == opens[a][k]
    IN (o.pending = {} /\ endpoint[a] = NoEndpoint)
         => \E j \in 1..Len(o.cbs) : o.cbs[j] = "EndpointNotFound"

\* C17: a per-interface callback that runs after the adapter's device was
\* detached does nothing: no event, no invocation of the open callback, no
\* endpoint bound.
C17_CallbackAfterDetachIsNoOp ==
  [][\A a \in Adapters :
       ( /\ lastOp'.op = "ifaceCallback" /\ lastOp'.a = a
         /\ opens'[a] # opens[a] /\ detached[a] )
         => /\ emitted'[a] = <<>>
            /\ cbCalls'[a] = <<>>
            /\ endpoint'[a] = endpoint[a]
            /\ deviceToPcEndpoint'[a] = deviceToPcEndpoint[a]]_vars

\* C20: one open() call invokes its callback at most once, whatever the
\* order of the interfaces' callbacks and whichever claims fail.
C20_CallbackAtMostOnce ==
  \A a \in Adapters : \A k \in OpenCalls(a) : Len(opens[a][k].cbs) <= 1

HasIn(d, i) == \E j \in 1..Len(Interfaces(d)[i]) : Interfaces(d)[i][j] = "in"
\* The first endpoint of interface i of device d with the given direction.
FirstOf(d, i, dir) ==
  Ep(d, i, CHOOSE j \in 1..Len(Interfaces(d)[i]) :
             /\ Interfaces(d)[i][j] = dir
             /\ \A h \in 1..(j - 1) : Interfaces(d)[i][h] # dir)

\* C18: the write and read slots are single-assignment.  A bound slot is never
\* changed by any step; the callback of a claimed interface fills an empty
\* write slot with its first "out" endpoint and an empty read slot with its
\* first "in" endpoint, and leaves an empty slot empty if it has none.
C18_SlotsSingleAssignment ==
  [][\A a \in Adapters :
       /\ endpoint[a] # NoEndpoint => endpoint'[a] = endpoint[a]
       /\ deviceToPcEndpoint[a] # NoEndpoint => deviceToPcEndpoint'[a] = deviceToPcEndpoint[a]
       /\ \A k \in OpenCalls(a) :
            LET d == opens[a][k].dev
                i == lastOp'.i
            IN ( /\ lastOp'.op = "ifaceCallback" /\ lastOp'.a = a /\ lastOp'.k = k
                 /\ opens'[a][k] # opens[a][k] /\ lastOp'.y = "ok" )
                 => /\ endpoint[a] = NoEndpoint
                         => endpoint'[a] = IF HasOut(d, i) THEN FirstOf(d, i, "out")
                                           ELSE NoEndpoint
                    /\ deviceToPcEndpoint[a] = NoEndpoint
                         => deviceToPcEndpoint'[a] = IF HasIn(d, i) THEN FirstOf(d, i, "in")
                                                     ELSE NoEndpoint]_vars

\* C18, witness: the callback of a claimed interface holding an "out" and an
\* "in" endpoint has just run, and both slots hold endpoints of the other
\* interface, bound earlier.
C18_Witness ==
  \E a \in Adapters : \E k \in OpenCalls(a) :
    /\ lastOp.op = "ifaceCallback" /\ lastOp.a = a /\ lastOp.k = k /\ lastOp.y = "ok"
    /\ HasOut(opens[a][k].dev, lastOp.i) /\ HasIn(opens[a][k].dev, lastOp.i)
    /\ endpoint[a] # NoEndpoint /\ endpoint[a].iface # lastOp.i
    /\ deviceToPcEndpoint[a] # NoEndpoint /\ deviceToPcEndpoint[a].iface # lastOp.i

IsKernelCall(h) == h.op \in {"isKernelDriverActive", "detachKernelDriver"}

\* C19: a failure of detachKernelDriver() reaches no callback.  The interface
\* is still claimed and classified, and the callback invocations, the events
\* and the slots after the step are those of the same step with a successful
\* detach.  On win32 no kernel-driver query or detach is made.
C19_KernelDetachFailureSuppressed ==
  [][\A a \in Adapters : \A k \in OpenCalls(a) :
       LET o == opens[a][k]
           d == o.dev
           i == lastOp'.i
           slots == Classify(endpoint[a], deviceToPcEndpoint[a], d, i, 1)
           done == Completion(slots.w, o.counter, device[a])
       IN ( /\ lastOp'.op = "ifaceCallback" /\ lastOp'.a = a /\ lastOp'.k = k
            /\ opens'[a][k] # o )
            => /\ \A j \in 1..Len(cbCalls'[a]) : cbCalls'[a][j] # "KernelDetachError"
               /\ platform = "win32"
                    => \A j \in 1..Len(hostCalls'[a]) : ~IsKernelCall(hostCalls'[a][j])
               /\ lastOp'.x = "throws"
                    => /\ hostCalls'[a] = <<HostCall("isKernelDriverActive", d, i),
                                            HostCall("detachKernelDriver", d, i),
                                            HostCall("claim", d, i)>>
                       /\ lastOp'.y = "ok"
                            => /\ cbCalls'[a] = done.cb
                               /\ emitted'[a] = done.emit
                               /\ endpoint'[a] = slots.w
                               /\ deviceToPcEndpoint'[a] = slots.r
                       /\ lastOp'.y = "throws"
                            => /\ cbCalls'[a] = <<"ClaimError">>
                               /\ emitted'[a] = <<>>
                               /\ endpoint'[a] = endpoint[a]
                               /\ deviceToPcEndpoint'[a] = deviceToPcEndpoint[a]]_vars

\* C19, witness: an interface callback whose kernel-driver detach failed has
\* just claimed the interface, bound the write endpoint and reported success.
C19_Witness ==
  \E a \in Adapters :
    /\ lastOp.op = "ifaceCallback" /\ lastOp.a = a /\ lastOp.x = "throws"
    /\ lastOp.y = "ok" /\ platform = "linux"
    /\ cbCalls[a] = <<"null">> /\ endpoint[a] # NoEndpoint
    /\ \E j \in 1..Len(hostCalls[a]) : hostCalls[a][j].op = "detachKernelDriver"

====
